---- MODULE Spec2Model ----
(***************************************************************************)
(* bench.c: a harness that runs a command repeatedly as a child process,   *)
(* first `warmups` times untimed, then for about `duration` seconds while   *)
(* accumulating min/max/sum/runs/fails, and finally prints a report.       *)
(*                                                                         *)
(* Times are whole ticks of the monotonic clock, the unit in which -d is    *)
(* read; the doubles of the source are modelled as integers, the average  *)
(* as the exact fraction sum/runs.  The harness is one sequential process; *)
(* pc is its position in main() or in run_once().  The child created by    *)
(* fork() is a second process with its own position child_st.              *)
(***************************************************************************)
EXTENDS Integers, Sequences, FiniteSets, TLC

\* ------------------------------------------------------------- bounds
MaxStep == 2      \* largest advance of the clock between two reads
MaxClock == 5     \* the clock is read only up to this value
MaxRuns == 2      \* timed runs started at most
MaxEintr == 1     \* EINTR returns of waitpid in one run at most
MaxOpts == 2      \* options on the command line at most

\* ------------------------------------------------- program constants
EXIT_SUCCESS == 0
EXIT_FAILURE == 1
DefaultWarmups == 0
DefaultDuration == 5
ExecFailCode == 127

NotExited == 0 - 1     \* exit_status while the harness is still running

\* ------------------------------------------------ the command line
\* The option arguments tried; atoi/atof read a leading number and give 0
\* for text that has none.
OptArgs == {"-1", "0", "1", "abc"}

atoi(s) ==
    CASE s = "-1" -> 0 - 1
      [] s = "0"  -> 0
      [] s = "1"  -> 1
      [] OTHER    -> 0

atof(s) ==
    CASE s = "-1" -> 0 - 1
      [] s = "0"  -> 0
      [] s = "1"  -> 1
      [] OTHER    -> 0

\* One option token as getopt sees it: -w ARG, -d ARG or an unknown option.
OptTokens ==
    [opt : {"w", "d"}, arg : OptArgs] \cup {[opt |-> "?", arg |-> "abc"]}

ArgLists ==
    UNION {[1..n -> OptTokens] : n \in 0..MaxOpts}

\* A token getopt's loop rejects.
BadToken(tok) ==
    \/ tok.opt = "?"
    \/ tok.opt = "w" /\ atoi(tok.arg) < 0
    \/ tok.opt = "d" /\ atof(tok.arg) <= 0

\* The kinds of command: one that always exits 0, one that always exits 2,
\* a name execvp cannot find, and one whose every run may exit 0, exit
\* non-zero or be killed by a signal.
CmdKinds == {"true", "exit2", "noent", "flaky"}

\* ------------------------------------------------ wait status words
\* The status word waitpid stores: exit code in bits 8..15 for a normal
\* exit, the signal number in bits 0..6 (bit 7: core dumped) for a kill.
W_EXITCODE(code) == (code % 256) * 256
W_SIGNALED(sig, core) == sig + (IF core THEN 128 ELSE 0)

WIFEXITED(st) == (st % 128) = 0
WEXITSTATUS(st) == (st \div 256) % 256

VARIABLES
    argv,          \* the option tokens getopt has not yet consumed
    has_cmd,       \* whether a command follows the options (optind < argc)
    cmd,           \* the kind of the command (cmd_argv)
    clock_ok,      \* whether CLOCK_MONOTONIC is available
    clock,         \* the monotonic clock at its last read
    pc,            \* position of the harness
    ctx,           \* caller of run_once: "warmup" or "timed"
    warmups, duration, i,
    total_start, min_s, max_s, sum_s, runs, fails,
    secs, rc,      \* main's locals of the timed loop
    t0, status, eintr,        \* run_once's locals
    child_st, child_status,   \* the child run_once waits for, its status word
    child_end,     \* how that child ended, until waitpid is through with it:
                   \* <<"exit", code>> or <<"signal", sig>>
    live,          \* children of the harness that exist (forked, not yet collected)
    calls,         \* history: calls of run_once so far
    forks,         \* history: fork() calls that made a child, in the current call
    reaps,         \* history: waitpid() calls that reaped a child, in the current call
    bad_opts,      \* history: whether the options as given hold one that is rejected
    bad_rcs,       \* history: non-zero returns of run_once into the timed loop
    durs,          \* history: the durations folded into the statistics, in order
    unmeasured,    \* history: the latest folded run waited for its child and
                   \* returned before t1 was read: the time the child took is in
                   \* no measured interval
    ovh,           \* history: loop overhead, the clock advance between two reads
                   \* with no call of run_once in progress between them (check
                   \* to t0, t1 to check, check to report), since the budget
                   \* check that started the latest timed run
    report, exit_status

vars == <<argv, has_cmd, cmd, clock_ok, clock, pc, ctx, warmups, duration, i,
          total_start, min_s, max_s, sum_s, runs, fails, secs, rc, t0, status,
          eintr, child_st, child_status, child_end, live, calls, forks, reaps,
          bad_opts, bad_rcs, durs, unmeasured, ovh, report, exit_status>>

cfgVars == <<has_cmd, cmd, clock_ok>>
statVars == <<min_s, max_s, sum_s, runs, fails>>
childVars == <<child_st, child_status, child_end, live>>
onceVars == <<t0, status, eintr>>
histVars == <<calls, forks, reaps, bad_opts, bad_rcs>>
ghostVars == <<durs, unmeasured, ovh>>

NoReport ==
    [printed |-> FALSE, avg_s |-> <<0, 1>>, min |-> 0, avg |-> <<0, 1>>,
     max |-> 0, total |-> 0, runs |-> 0, fails |-> 0, warmups |-> 0]

Init ==
    /\ argv \in ArgLists
    /\ has_cmd \in BOOLEAN
    /\ cmd \in CmdKinds
    /\ clock_ok \in BOOLEAN
    /\ clock = 0
    /\ pc = "getopt"
    /\ ctx = "warmup"
    /\ warmups = DefaultWarmups
    /\ duration = DefaultDuration
    /\ i = 0
    /\ total_start = 0
    /\ min_s = 0 /\ max_s = 0 /\ sum_s = 0 /\ runs = 0 /\ fails = 0
    /\ secs = 0 /\ rc = 0
    /\ t0 = 0 /\ status = 0 /\ eintr = 0
    /\ child_st = "none" /\ child_status = 0 /\ child_end = <<"none", 0>>
    /\ live = 0
    /\ calls = 0 /\ forks = 0 /\ reaps = 0 /\ bad_rcs = 0
    /\ bad_opts = (\E k \in 1..Len(argv) : BadToken(argv[k]))
    /\ durs = <<>> /\ unmeasured = FALSE /\ ovh = 0
    /\ report = NoReport
    /\ exit_status = NotExited

\* ------------------------------------------------------ now_monotonic
\* A successful read: the clock has not gone back since the last read.
now_monotonic(t) ==
    /\ clock_ok
    /\ t \in clock..(clock + MaxStep)
    /\ t <= MaxClock
    /\ clock' = t

ClockPcs == {"window", "check", "report", "r_t0", "r_t1"}

\* clock_gettime fails: perror and exit(EXIT_FAILURE), whoever called.
ClockFail ==
    /\ pc \in ClockPcs
    /\ ~clock_ok
    /\ pc' = "aborted"
    /\ exit_status' = EXIT_FAILURE
    /\ UNCHANGED <<ghostVars, argv, cfgVars, clock, ctx, warmups, duration, i, total_start,
                   statVars, secs, rc, onceVars, childVars, histVars, report>>

\* ------------------------------------------------------------ getopt
BadWarmups(w) == w < 0
\* A duration check that lets 0 through.
BadDurationLax(d) == d < 0
BadDuration(d) == d <= 0

GetoptW ==
    /\ pc = "getopt"
    /\ argv # <<>>
    /\ Head(argv).opt = "w"
    /\ warmups' = atoi(Head(argv).arg)
    /\ argv' = Tail(argv)
    /\ IF BadWarmups(warmups')
         THEN pc' = "exited" /\ exit_status' = EXIT_FAILURE
         ELSE pc' = "getopt" /\ UNCHANGED exit_status
    /\ UNCHANGED <<ghostVars, cfgVars, clock, ctx, duration, i, total_start, statVars,
                   secs, rc, onceVars, childVars, histVars, report>>

GetoptD ==
    /\ pc = "getopt"
    /\ argv # <<>>
    /\ Head(argv).opt = "d"
    /\ duration' = atof(Head(argv).arg)
    /\ argv' = Tail(argv)
    /\ IF BadDuration(duration')
         THEN pc' = "exited" /\ exit_status' = EXIT_FAILURE
         ELSE pc' = "getopt" /\ UNCHANGED exit_status
    /\ UNCHANGED <<ghostVars, cfgVars, clock, ctx, warmups, i, total_start, statVars,
                   secs, rc, onceVars, childVars, histVars, report>>

GetoptUnknown ==
    /\ pc = "getopt"
    /\ argv # <<>>
    /\ Head(argv).opt = "?"
    /\ argv' = Tail(argv)
    /\ pc' = "exited"
    /\ exit_status' = EXIT_FAILURE
    /\ UNCHANGED <<ghostVars, cfgVars, clock, ctx, warmups, duration, i, total_start,
                   statVars, secs, rc, onceVars, childVars, histVars, report>>

\* getopt returned -1: the command must follow.
GetoptEnd ==
    /\ pc = "getopt"
    /\ argv = <<>>
    /\ IF ~has_cmd
         THEN pc' = "exited" /\ exit_status' = EXIT_FAILURE
         ELSE pc' = "warmup" /\ UNCHANGED exit_status
    /\ UNCHANGED <<ghostVars, argv, cfgVars, clock, ctx, warmups, duration, i, total_start,
                   statVars, secs, rc, onceVars, childVars, histVars, report>>

\* ------------------------------------------------------------ run_once
\* return r: control is back in the caller with the value r.
Return(r) ==
    /\ pc' = "r_ret"
    /\ rc' = r
    /\ bad_rcs' = bad_rcs + (IF ctx = "timed" /\ r # 0 THEN 1 ELSE 0)

\* A measurement that stores the end timestamp instead of the difference.
SetSecsOutNoStart(v) ==
    IF ctx = "timed" THEN secs' = v + t0 ELSE UNCHANGED secs

\* *secs_out = v.  In the warmup loop secs_out points to ignore_time, which
\* is never read and goes out of scope with the iteration.
SetSecsOut(v) ==
    IF ctx = "timed" THEN secs' = v ELSE UNCHANGED secs

\* A classification that looks at the exit-code bits only.
ClassifyExitOnly(st) ==
    IF WEXITSTATUS(st) = 0 THEN 0 ELSE 1

\* A classification with the two return values the wrong way round.
ClassifySwapped(st) ==
    IF WIFEXITED(st) /\ WEXITSTATUS(st) = 0 THEN 1 ELSE 0

\* Success is a normal exit with status 0; anything else is failure.
Classify(st) ==
    IF WIFEXITED(st) /\ WEXITSTATUS(st) = 0 THEN 0 ELSE 1

\* double t0 = now_monotonic();
RunT0 ==
    /\ pc = "r_t0"
    /\ \E t \in clock..(clock + MaxStep) :
          /\ now_monotonic(t)
          /\ t0' = t
          /\ ovh' = IF ctx = "timed" THEN ovh + (t - clock) ELSE ovh
    /\ pc' = "r_fork"
    /\ UNCHANGED <<durs, unmeasured, argv, cfgVars, ctx, warmups, duration, i, total_start,
                   statVars, secs, rc, status, eintr, childVars, histVars,
                   report, exit_status>>

\* fork() gives the parent a pid: one more child exists, about to exec.
ForkOk ==
    /\ pc = "r_fork"
    /\ child_st' = "forked"
    /\ child_status' = 0
    /\ child_end' = <<"none", 0>>
    /\ live' = live + 1
    /\ forks' = forks + 1
    /\ pc' = "r_wait"
    /\ UNCHANGED <<ghostVars, argv, cfgVars, clock, ctx, warmups, duration, i, total_start,
                   statVars, secs, rc, onceVars, calls, reaps, bad_opts, bad_rcs,
                   report, exit_status>>

\* fork() < 0: perror and return -1; *secs_out is left as it was.
ForkFail ==
    /\ pc = "r_fork"
    /\ Return(0 - 1)
    /\ UNCHANGED <<ghostVars, argv, cfgVars, clock, ctx, warmups, duration, i, total_start,
                   statVars, secs, onceVars, childVars, calls, forks, reaps,
                   bad_opts, report, exit_status>>

\* waitpid reaped the child: it blocks until the child has terminated.
WaitOk ==
    /\ pc = "r_wait"
    /\ child_st = "zombie"
    /\ status' = child_status
    /\ child_st' = "none"
    /\ child_status' = 0
    /\ live' = live - 1
    /\ reaps' = reaps + 1
    /\ pc' = "r_t1"
    /\ UNCHANGED <<ghostVars, argv, cfgVars, clock, ctx, warmups, duration, i, total_start,
                   statVars, secs, rc, t0, eintr, child_end, calls, forks,
                   bad_opts, bad_rcs, report, exit_status>>

\* An interrupted waitpid taken for an error: return -1 without retrying.
WaitEintrReturns ==
    /\ pc = "r_wait"
    /\ eintr < MaxEintr
    /\ eintr' = eintr + 1
    /\ Return(0 - 1)
    /\ UNCHANGED <<ghostVars, argv, cfgVars, clock, ctx, warmups, duration, i, total_start,
                   statVars, secs, t0, status, childVars, calls, forks, reaps,
                   bad_opts, report, exit_status>>

\* An interrupted waitpid whose retry starts the run over, at the fork.
WaitEintrForksAgain ==
    /\ pc = "r_wait"
    /\ eintr < MaxEintr
    /\ eintr' = eintr + 1
    /\ pc' = "r_fork"
    /\ UNCHANGED <<ghostVars, argv, cfgVars, clock, ctx, warmups, duration, i,
                   total_start, statVars, secs, rc, t0, status, childVars,
                   histVars, report, exit_status>>

\* waitpid returned -1 with errno == EINTR: continue.
WaitEintr ==
    /\ pc = "r_wait"
    /\ eintr < MaxEintr
    /\ eintr' = eintr + 1
    /\ UNCHANGED <<ghostVars, argv, cfgVars, clock, pc, ctx, warmups, duration, i,
                   total_start, statVars, secs, rc, t0, status, childVars,
                   histVars, report, exit_status>>

\* waitpid returned -1 with another errno: perror and return -1; status and
\* *secs_out are left as they were.  For the pid fork just returned and
\* options 0 the errno is ECHILD: the child is no longer a child to wait
\* for, which happens when SIGCHLD is ignored and the system itself collects
\* the child at its termination (waitpid blocks until then).
WaitErr ==
    /\ pc = "r_wait"
    /\ child_st = "zombie"
    /\ child_st' = "none"
    /\ child_status' = 0
    /\ child_end' = <<"none", 0>>
    /\ live' = live - 1
    /\ Return(0 - 1)
    /\ UNCHANGED <<ghostVars, argv, cfgVars, clock, ctx, warmups, duration, i, total_start,
                   statVars, secs, onceVars, calls, forks, reaps, bad_opts, report,
                   exit_status>>

\* double t1 = now_monotonic(); *secs_out = t1 - t0; classify and return.
RunT1 ==
    /\ pc = "r_t1"
    /\ \E t1 \in clock..(clock + MaxStep) :
          /\ now_monotonic(t1)
          /\ SetSecsOut(t1 - t0)
    /\ Return(Classify(status))
    /\ UNCHANGED <<ghostVars, argv, cfgVars, ctx, warmups, duration, i, total_start,
                   statVars, onceVars, childVars, calls, forks, reaps, bad_opts,
                   report, exit_status>>

\* ------------------------------------------------------------ the child
\* execvp succeeded: the child is now the command.
ChildExec ==
    /\ child_st = "forked"
    /\ cmd # "noent"
    /\ child_st' = "running"
    /\ UNCHANGED <<ghostVars, argv, cfgVars, clock, pc, ctx, warmups, duration, i,
                   total_start, statVars, secs, rc, onceVars, child_status,
                   child_end, live, histVars, report, exit_status>>

\* A child that lacks the _exit and falls out of the if into the parent's code.
AfterExecFailureFallsThrough == "returned"

\* Where the child goes when execvp returned: perror, then _exit(127).
AfterExecFailure == "zombie"

ChildExecFail ==
    /\ child_st = "forked"
    /\ cmd = "noent"
    /\ child_st' = AfterExecFailure
    /\ child_status' = W_EXITCODE(ExecFailCode)
    /\ child_end' = <<"exit", ExecFailCode>>
    /\ UNCHANGED <<ghostVars, argv, cfgVars, clock, pc, ctx, warmups, duration, i,
                   total_start, statVars, secs, rc, onceVars, live,
                   histVars, report, exit_status>>

\* The exit codes and signals a run of the command may end with.
ExitCodes ==
    CASE cmd = "true"  -> {0}
      [] cmd = "exit2" -> {2}
      [] cmd = "flaky" -> {0, 1}
      [] OTHER         -> {}

Signals ==
    IF cmd = "flaky" THEN {<<11, TRUE>>} ELSE {}

ChildExit ==
    /\ child_st = "running"
    /\ \E code \in ExitCodes :
          /\ child_status' = W_EXITCODE(code)
          /\ child_end' = <<"exit", code>>
    /\ child_st' = "zombie"
    /\ UNCHANGED <<ghostVars, argv, cfgVars, clock, pc, ctx, warmups, duration, i,
                   total_start, statVars, secs, rc, onceVars, live,
                   histVars, report, exit_status>>

ChildSignal ==
    /\ child_st = "running"
    /\ \E sg \in Signals :
          /\ child_status' = W_SIGNALED(sg[1], sg[2])
          /\ child_end' = <<"signal", sg[1]>>
    /\ child_st' = "zombie"
    /\ UNCHANGED <<ghostVars, argv, cfgVars, clock, pc, ctx, warmups, duration, i,
                   total_start, statVars, secs, rc, onceVars, live,
                   histVars, report, exit_status>>

\* ------------------------------------------------------------ main
\* A warmup loop that runs once too often.
WarmupMoreOffByOne(k, w) == k <= w

\* for (int i = 0; i < warmups; i++) (void)run_once(&ignore_time);
WarmupMore(k, w) == k < w

\* What the frame of a finished call leaves behind: run_once's locals and
\* the loop body's locals are gone.
FrameGone ==
    /\ t0' = 0 /\ status' = 0 /\ eintr' = 0
    /\ secs' = 0 /\ rc' = 0
    /\ child_end' = <<"none", 0>>
    /\ forks' = 0 /\ reaps' = 0

WarmupLoop ==
    /\ pc = "warmup"
    /\ IF WarmupMore(i, warmups)
         THEN /\ pc' = "r_t0"
              /\ ctx' = "warmup"
              /\ calls' = calls + 1
         ELSE /\ pc' = "window"
              /\ UNCHANGED <<ctx, calls>>
    /\ UNCHANGED <<ghostVars, argv, cfgVars, clock, warmups, duration, i, total_start,
                   statVars, secs, rc, onceVars, childVars, forks, reaps,
                   bad_opts, bad_rcs, report, exit_status>>

\* run_once returned into the warmup loop: the value is discarded; i++.
WarmupNext ==
    /\ pc = "r_ret"
    /\ ctx = "warmup"
    /\ i' = i + 1
    /\ pc' = "warmup"
    /\ FrameGone
    /\ UNCHANGED <<ghostVars, argv, cfgVars, clock, ctx, warmups, duration, total_start,
                   statVars, child_st, child_status, live, calls, bad_opts,
                   bad_rcs, report, exit_status>>

\* total_start = now_monotonic(); min_s = max_s = sum_s = 0.0; runs = fails = 0;
WindowStart ==
    /\ pc = "window"
    /\ \E t \in clock..(clock + MaxStep) :
          /\ now_monotonic(t)
          /\ total_start' = t
    /\ min_s' = 0 /\ max_s' = 0 /\ sum_s' = 0
    /\ runs' = 0 /\ fails' = 0
    /\ durs' = <<>>
    /\ unmeasured' = FALSE
    /\ pc' = "check"
    /\ UNCHANGED <<ovh, argv, cfgVars, ctx, warmups, duration, i, secs, rc,
                   onceVars, childVars, histVars, report, exit_status>>

\* A budget check that starts one more run when elapsed equals the budget.
BudgetSpentStrict(elapsed, budget) == elapsed > budget

\* A budget check driven by the measured durations instead of the clock.
BudgetSpentBySum(elapsed, budget) == sum_s >= budget

\* if (elapsed >= duration) break;
BudgetSpent(elapsed, budget) == elapsed >= budget

\* The head of the timed loop: read the clock; leave the loop, or set
\* secs = 0.0 and call run_once(&secs).
BudgetCheck ==
    /\ pc = "check"
    /\ \E t \in clock..(clock + MaxStep) :
          /\ now_monotonic(t)
          /\ IF BudgetSpent(t - total_start, duration)
               THEN /\ pc' = "report"
                    /\ ovh' = IF unmeasured THEN ovh ELSE ovh + (t - clock)
                    /\ UNCHANGED <<ctx, secs, calls>>
               ELSE /\ runs < MaxRuns
                    /\ ovh' = 0
                    /\ pc' = "r_t0"
                    /\ ctx' = "timed"
                    /\ secs' = 0
                    /\ calls' = calls + 1
    /\ UNCHANGED <<durs, unmeasured, argv, cfgVars, warmups, duration, i, total_start,
                   statVars, rc, onceVars, childVars, forks, reaps, bad_opts, bad_rcs,
                   report, exit_status>>

\* A minimum whose comparison is the wrong way round.
FoldMinSwapped(n, mn, s) == IF n = 0 THEN s ELSE IF s > mn THEN s ELSE mn

\* A failure test that misses the system errors (-1).
IsFailedRunExitOnly(r) == r = 1

\* A loop that gives up at the first failed run.
AfterFoldAbort(r) == IF r # 0 THEN "report" ELSE "check"

\* A minimum that starts from the 0 the variable was declared with.
FoldMinSentinel(n, mn, s) == IF s < mn THEN s ELSE mn

\* The statistics update of one measured run.
FoldMin(n, mn, s) == IF n = 0 THEN s ELSE IF s < mn THEN s ELSE mn
FoldMax(n, mx, s) == IF n = 0 THEN s ELSE IF s > mx THEN s ELSE mx
IsFailedRun(r) == r # 0

\* The end of the loop body: whatever rc was, back to the budget check.
AfterFold(r) == "check"

\* run_once returned into the timed loop: fold the run into the statistics.
Fold ==
    /\ pc = "r_ret"
    /\ ctx = "timed"
    /\ min_s' = FoldMin(runs, min_s, secs)
    /\ max_s' = FoldMax(runs, max_s, secs)
    /\ sum_s' = sum_s + secs
    /\ runs' = runs + 1
    /\ fails' = IF IsFailedRun(rc) THEN fails + 1 ELSE fails
    /\ durs' = Append(durs, secs)
    /\ unmeasured' = (forks = 1 /\ reaps = 0)
    /\ pc' = AfterFold(rc)
    /\ FrameGone
    /\ UNCHANGED <<ovh, argv, cfgVars, clock, ctx, warmups, duration, i, total_start,
                   child_st, child_status, live, calls, bad_opts, bad_rcs, report,
                   exit_status>>

\* An exit code that tolerates one failed run.
ExitCodeLax(f) == IF f > 1 THEN EXIT_FAILURE ELSE EXIT_SUCCESS

\* return (fails > 0) ? EXIT_FAILURE : EXIT_SUCCESS;
ExitCode(f) == IF f > 0 THEN EXIT_FAILURE ELSE EXIT_SUCCESS

\* An average that divides whatever runs is.
AverageUnguarded(s, n) == <<s, n>>

\* avg_s = (runs > 0) ? (sum_s / runs) : 0.0, as the fraction <<num, den>>.
Average(s, n) == IF n > 0 THEN <<s, n>> ELSE <<0, 1>>

\* total_elapsed, avg_s, the four printf calls and the return of main.
Report ==
    /\ pc = "report"
    /\ \E t \in clock..(clock + MaxStep) :
          /\ now_monotonic(t)
          /\ ovh' = ovh + (t - clock)
          /\ report' = [printed |-> TRUE,
                        avg_s |-> Average(sum_s, runs),
                        min |-> IF runs # 0 THEN min_s ELSE 0,
                        avg |-> IF runs # 0 THEN Average(sum_s, runs) ELSE <<0, 1>>,
                        max |-> IF runs # 0 THEN max_s ELSE 0,
                        total |-> t - total_start,
                        runs |-> runs,
                        fails |-> fails,
                        warmups |-> warmups]
    /\ exit_status' = ExitCode(fails)
    /\ pc' = "exited"
    /\ UNCHANGED <<durs, unmeasured, argv, cfgVars, ctx, warmups, duration, i,
                   total_start, statVars, secs, rc, onceVars, childVars, histVars>>

Next ==
    \/ GetoptW \/ GetoptD \/ GetoptUnknown \/ GetoptEnd
    \/ WarmupLoop \/ WarmupNext \/ WindowStart \/ BudgetCheck \/ Fold \/ Report
    \/ RunT0 \/ ForkOk \/ ForkFail \/ WaitOk \/ WaitEintr \/ WaitErr \/ RunT1
    \/ ChildExec \/ ChildExecFail \/ ChildExit \/ ChildSignal
    \/ ClockFail

Spec == Init /\ [][Next]_vars

\* The harness is one sequential process that keeps running; the child is
\* scheduled by the system and, being a command that terminates, keeps
\* taking its steps until it has ended.
Harness ==
    \/ GetoptW \/ GetoptD \/ GetoptUnknown \/ GetoptEnd
    \/ WarmupLoop \/ WarmupNext \/ WindowStart \/ BudgetCheck \/ Fold \/ Report
    \/ RunT0 \/ ForkOk \/ ForkFail \/ WaitOk \/ WaitEintr \/ WaitErr \/ RunT1
    \/ ClockFail

Child == ChildExec \/ ChildExecFail \/ ChildExit \/ ChildSignal

FairSpec == Init /\ [][Next]_vars /\ WF_vars(Harness) /\ WF_vars(Child)

\* ------------------------------------------------------------ phases
RunPcs == {"r_t0", "r_fork", "r_wait", "r_t1", "r_ret"}

InRunOnce == pc \in RunPcs
InWarmup == pc = "warmup" \/ (InRunOnce /\ ctx = "warmup")
InTimed == pc = "check" \/ (InRunOnce /\ ctx = "timed")
Reported == pc = "exited" /\ report.printed

\* A command line main rejects.
ConfigError == bad_opts \/ ~has_cmd

\* ------------------------------------------------------------ claims
AllZero == runs = 0 /\ fails = 0 /\ sum_s = 0 /\ min_s = 0 /\ max_s = 0

\* The timed calls of run_once so far are the folded runs plus the one in flight.
TimedCallsCounted ==
    runs + (IF InRunOnce THEN 1 ELSE 0) = calls - warmups

\* C1: run_once is called exactly warmups times before window_start is taken;
\* the statistics are all zero throughout the warmup phase and when
\* window_start is taken; the final run_count counts the timed calls only.
C1_WarmupRunsUntimed ==
    /\ (pc = "window" => calls = warmups /\ i = warmups)
    /\ (InWarmup \/ pc = "window" => AllZero)
    /\ (pc = "check" /\ calls = warmups => AllZero)
    /\ (InTimed \/ pc = "report" => TimedCallsCounted)
    /\ (Reported => report.runs = calls - warmups /\ report.warmups = warmups)

C1_Witness ==
    /\ Reported
    /\ warmups = 1
    /\ calls = 3
    /\ report.runs = 2

\* C2: a program that got past its configuration checks ends with the
\* report, and its exit status is zero exactly when fail_count is 0 at the
\* end of the timed phase, which is exactly when no timed run_once returned
\* non-zero (1 or -1); warmup returns do not count.
C2_ExitStatusIffNoFailures ==
    /\ (pc = "exited" /\ ~ConfigError => report.printed)
    /\ (Reported => /\ exit_status \in {EXIT_SUCCESS, EXIT_FAILURE}
                    /\ (exit_status = EXIT_SUCCESS) <=> (fails = 0)
                    /\ (exit_status = EXIT_SUCCESS) <=> (bad_rcs = 0))

C2_Witness ==
    /\ Reported
    /\ warmups = 1
    /\ report.runs = 2
    /\ report.fails = 1
    /\ exit_status = EXIT_FAILURE

\* C3: 0 <= fail_count <= run_count always; fail_count is the number of
\* timed runs whose run_once returned non-zero; a command whose every run
\* fails has fail_count = run_count.
C3_FailsCountFailedRuns ==
    /\ 0 <= fails /\ fails <= runs
    /\ fails + (IF pc = "r_ret" /\ ctx = "timed" /\ rc # 0 THEN 1 ELSE 0) = bad_rcs
    /\ (Reported => report.fails = bad_rcs)
    /\ (cmd \in {"exit2", "noent"} => fails = runs)

C3_Witness ==
    /\ Reported
    /\ cmd = "exit2"
    /\ report.runs = 2
    /\ report.fails = 2

\* C4: once run_count = n > 0, min * n <= sum <= max * n, and the report's
\* average is the fraction sum/n, between the reported min and max.
C4_MinAvgMax ==
    /\ (runs > 0 => /\ min_s * runs <= sum_s
                    /\ sum_s <= max_s * runs
                    /\ min_s <= max_s)
    /\ (Reported /\ runs > 0 =>
          /\ report.avg = <<sum_s, runs>>
          /\ report.min * report.avg[2] <= report.avg[1]
          /\ report.avg[1] <= report.max * report.avg[2])

C4_Witness ==
    /\ Reported
    /\ report.runs = 2
    /\ report.min < report.max
    /\ report.fails = 1

\* C5: a timed run is started only when the elapsed time read at the head of
\* the loop is below the budget, and the loop is left only when it is not;
\* run_once stops waiting only for a child that has terminated; every run
\* that was started is folded into the statistics (run_count + 1), however
\* late it ends; the reported total_elapsed is at least the budget.
C5_BudgetCheckedAtBoundaries ==
    /\ [][pc = "check" /\ pc' = "r_t0" => clock' - total_start < duration]_vars
    /\ [][InTimed /\ ~InTimed' => clock' - total_start >= duration]_vars
    /\ [][pc = "r_wait" /\ pc' # "r_wait" => child_st = "zombie"]_vars
    /\ [][pc = "r_ret" /\ ctx = "timed" /\ pc' # pc => runs' = runs + 1]_vars
    /\ [](InTimed => TimedCallsCounted)
    /\ [](Reported => report.runs = calls - warmups /\ report.total >= duration)

C5_Witness ==
    /\ Reported
    /\ report.runs = 2
    /\ report.max > duration
    /\ report.total > duration

\* C6: after a timed run that returned 1 or -1 the loop goes back to the
\* budget check; from the budget check it starts another run when the
\* elapsed time is below the budget and goes to the report otherwise; the
\* timed phase is left from the budget check only.
C6_FailuresDoNotAbort ==
    /\ [][pc = "r_ret" /\ ctx = "timed" /\ rc # 0 /\ pc' # pc => pc' = "check"]_vars
    /\ [][pc = "check" /\ pc' # pc =>
            IF clock' - total_start < duration
              THEN pc' = "r_t0"
              ELSE pc' = "report"]_vars
    /\ [][InTimed /\ ~InTimed' => pc = "check" /\ pc' = "report"]_vars

C6_Witness ==
    /\ pc = "r_t0"
    /\ ctx = "timed"
    /\ runs = 1
    /\ fails = 1

\* C7: at most one child of the harness exists at any moment, and none
\* exists outside the wait of run_once: whichever way run_once returns
\* (fork failed, waitpid failed, child reaped), no child is left behind
\* when the next one is created.
C7_AtMostOneChild ==
    /\ live \in {0, 1}
    /\ live = (IF child_st = "none" THEN 0 ELSE 1)
    /\ (pc # "r_wait" => live = 0)
    /\ (pc = "r_fork" => live = 0)

C7_Witness ==
    /\ pc = "r_ret"
    /\ rc = 0 - 1
    /\ forks = 1
    /\ reaps = 0
    /\ live = 0
    /\ calls = 2

\* C8: on a configuration error (a rejected option anywhere among the
\* options, or no command) main returns EXIT_FAILURE from the option
\* parsing: run_once is never called, no child is created, nothing is
\* printed.
C8_ConfigErrorBeforeAnyChild ==
    ConfigError =>
        /\ pc \in {"getopt", "exited"}
        /\ calls = 0 /\ forks = 0 /\ live = 0 /\ child_st = "none"
        /\ ~report.printed
        /\ (pc = "exited" => exit_status = EXIT_FAILURE)

C8_Witness ==
    /\ pc = "exited"
    /\ has_cmd
    /\ bad_opts
    /\ warmups = 1
    /\ duration = 0
    /\ exit_status = EXIT_FAILURE

\* C9: the value run_once returns is 0 exactly when the child was reaped
\* after a normal exit with code 0, 1 exactly when it was reaped after a
\* non-zero exit or a signal, and -1 exactly when fork failed or waitpid
\* failed; no status word of a signalled child classifies as success.
C9_Classification ==
    /\ (pc = "r_ret" =>
          /\ rc \in {0, 1, 0 - 1}
          /\ (rc = 0) <=> (forks = 1 /\ reaps = 1 /\ child_end = <<"exit", 0>>)
          /\ (rc = 1) <=> /\ forks = 1
                          /\ reaps = 1
                          /\ \/ child_end[1] = "signal"
                             \/ child_end[1] = "exit" /\ child_end[2] # 0
          /\ (rc = 0 - 1) <=> (forks = 0 \/ reaps = 0))
    /\ (pc = "r_t1" =>
          /\ \A sig \in 1..127 : \A core \in BOOLEAN :
                Classify(W_SIGNALED(sig, core)) = 1
          /\ \A code \in 0..255 :
                Classify(W_EXITCODE(code)) = (IF code = 0 THEN 0 ELSE 1))

C9_Witness ==
    /\ pc = "r_ret"
    /\ child_end = <<"signal", 11>>
    /\ reaps = 1
    /\ rc = 1

\* C10 as stated: after a failed exec the child is terminated with status
\* 127 and is never anywhere else; for a command that cannot be executed
\* every timed run is counted as failed and the exit status is non-zero.
C10_Original ==
    /\ (cmd = "noent" /\ child_st \notin {"none", "forked"} =>
          /\ child_st = "zombie"
          /\ child_status = W_EXITCODE(ExecFailCode))
    /\ (cmd = "noent" => fails = runs)
    /\ (cmd = "noent" /\ Reported => exit_status # EXIT_SUCCESS)

\* C10, amended: as above, but the exit status is non-zero only when at
\* least one timed run was executed; with run_count = 0 it is zero.
C10_ExecFailure ==
    /\ (cmd = "noent" /\ child_st \notin {"none", "forked"} =>
          /\ child_st = "zombie"
          /\ child_status = W_EXITCODE(ExecFailCode)
          /\ child_end = <<"exit", ExecFailCode>>)
    /\ (cmd = "noent" /\ pc = "r_ret" => rc # 0)
    /\ (cmd = "noent" /\ pc = "r_t1" => WEXITSTATUS(status) = ExecFailCode)
    /\ (cmd = "noent" => fails = runs)
    /\ (cmd = "noent" /\ Reported =>
          (exit_status # EXIT_SUCCESS) <=> (runs > 0))

C10_Witness ==
    /\ Reported
    /\ cmd = "noent"
    /\ report.runs = 2
    /\ report.fails = 2
    /\ exit_status = EXIT_FAILURE

\* The duration measured by the timed run that has returned and is not yet folded.
Pending == IF pc = "r_ret" /\ ctx = "timed" THEN secs ELSE 0

\* C11: the measured intervals [t0, t1] of the timed runs lie inside the
\* window that starts at total_start, each starts no earlier than the
\* previous one ended (the clock never goes back, t0 is a read after the
\* earlier t1), and so the reported total_elapsed is at least the sum of the
\* durations of the counted runs.
C11_TotalCoversRuns ==
    /\ [][clock' >= clock]_vars
    /\ [][pc = "r_t0" /\ pc' = "r_fork" => t0' = clock' /\ t0' >= clock]_vars
    /\ [][pc = "r_t1" /\ pc' = "r_ret" /\ ctx = "timed" =>
            secs' = clock' - t0 /\ secs' >= 0]_vars
    /\ [](ctx = "timed" /\ pc \in {"r_fork", "r_wait", "r_t1"} =>
            total_start + sum_s <= t0 /\ t0 <= clock)
    /\ [](InTimed \/ pc = "report" =>
            sum_s + Pending <= clock - total_start)
    /\ [](Reported => report.total >= sum_s /\ sum_s >= 0)

C11_Witness ==
    /\ Reported
    /\ report.runs = 2
    /\ durs = <<2, 1>>
    /\ sum_s = 3
    /\ report.total = 5

\* C12: at the report, the overrun total_elapsed - duration is at most the
\* duration folded for the last counted run plus the loop overhead between
\* clock reads (the time the harness itself takes from the budget check to
\* t0, from the return of run_once to the next budget check and from there
\* to the report) since the budget check that started that run.
C12_Original ==
    Reported /\ runs > 0 =>
        report.total - duration <= durs[Len(durs)] + ovh

\* C13 as stated: for a command that always exits 0, with warmups = 0 (the
\* duration is positive once the options are accepted), the harness ends
\* with run_count > 0, fail_count = 0 and exit status 0.
C13_Original ==
    cmd = "true" /\ warmups = 0 /\ Reported =>
        runs > 0 /\ fails = 0 /\ exit_status = EXIT_SUCCESS

\* C13, amended: for a command that always exits 0, run_once returns 0
\* unless fork or waitpid failed (then -1); only such error runs are counted
\* as failed, and the exit status is zero exactly when there was none; the
\* first budget check starts a run exactly when the elapsed time it reads is
\* below the budget, and run_count > 0 at the report exactly when it did.
C13_AlwaysSucceeding ==
    /\ [](cmd = "true" /\ pc = "r_ret" =>
            /\ rc \in {0, 0 - 1}
            /\ (rc = 0 - 1) <=> (forks = 0 \/ reaps = 0))
    /\ [][cmd = "true" /\ fails' > fails =>
            rc = 0 - 1 /\ (forks = 0 \/ reaps = 0)]_vars
    /\ [][pc = "check" /\ runs = 0 /\ pc' # pc =>
            IF clock' - total_start < duration
              THEN pc' = "r_t0" /\ calls' = calls + 1
              ELSE pc' = "report" /\ calls' = calls]_vars
    /\ [](cmd = "true" /\ warmups = 0 /\ Reported =>
            /\ (runs > 0) <=> (calls > 0)
            /\ fails = bad_rcs
            /\ (exit_status = EXIT_SUCCESS) <=> (fails = 0))

C13_Witness ==
    /\ Reported
    /\ cmd = "true"
    /\ warmups = 0
    /\ report.runs = 2
    /\ report.fails = 0
    /\ exit_status = EXIT_SUCCESS

\* C14: the division that computes avg_s never has a zero divisor; when the
\* timed phase ends with run_count = 0 the reported min, avg and max are 0,
\* fail_count is 0 and the exit status is zero.
C14_NoRunsAllZero ==
    /\ (Reported => report.avg_s[2] # 0)
    /\ (Reported /\ report.runs = 0 =>
          /\ report.avg_s = <<0, 1>>
          /\ report.min = 0 /\ report.avg = <<0, 1>> /\ report.max = 0
          /\ report.fails = 0
          /\ exit_status = EXIT_SUCCESS)

C14_Witness ==
    /\ Reported
    /\ report.runs = 0
    /\ warmups = 1
    /\ calls = 1
    /\ report.total > duration
    /\ exit_status = EXIT_SUCCESS

\* C15: a return of waitpid with EINTR leaves run_once waiting for the same
\* child and changes nothing else: no fork, no reap, no count; a call makes
\* at most one child and reaps at most once; after interruptions the value
\* returned is still the classification of the way the child ended, and the
\* run is folded once, into fail_count only when that value is non-zero; a
\* call leaves the wait without reaping only by returning -1 at once.
C15_EintrRetried ==
    /\ [][pc = "r_wait" /\ eintr' # eintr =>
            /\ pc' = "r_wait" /\ eintr' = eintr + 1
            /\ UNCHANGED <<childVars, histVars, statVars, secs, rc, status, t0>>]_vars
    /\ [](forks <= 1 /\ reaps <= forks)
    /\ [](pc \in {"r_wait", "r_t1"} => forks = 1)
    /\ [](pc = "r_ret" /\ eintr > 0 /\ reaps = 1 =>
            rc = (IF child_end = <<"exit", 0>> THEN 0 ELSE 1))
    /\ [][pc = "r_ret" /\ ctx = "timed" /\ eintr > 0 /\ pc' # pc =>
            /\ runs' = runs + 1
            /\ fails' = fails + (IF rc = 0 THEN 0 ELSE 1)]_vars
    /\ [][pc = "r_wait" /\ pc' \notin {"r_wait", "r_t1"} =>
            /\ pc' = "r_ret" /\ rc' = 0 - 1
            /\ reaps' = 0 /\ eintr' = eintr /\ forks' = 1]_vars

C15_Witness ==
    /\ pc = "r_ret"
    /\ ctx = "timed"
    /\ runs = 1
    /\ eintr = 1
    /\ forks = 1 /\ reaps = 1
    /\ child_end = <<"exit", 0>>
    /\ rc = 0

\* C16: every timed call of run_once, whatever it returns, returns through
\* the read of t1 and leaves in secs the difference between that timestamp
\* and t0, which is what the statistics update then folds.
C16_Original ==
    [][ctx = "timed" /\ pc # "r_ret" /\ pc' = "r_ret" =>
          pc = "r_t1" /\ secs' = clock' - t0]_vars

\* The smallest, the largest and the total of a sequence of durations.
SeqMin(q) == CHOOSE x \in {q[k] : k \in 1..Len(q)} : \A k \in 1..Len(q) : x <= q[k]
SeqMax(q) == CHOOSE x \in {q[k] : k \in 1..Len(q)} : \A k \in 1..Len(q) : x >= q[k]

RECURSIVE SeqSum(_)
SeqSum(q) == IF q = <<>> THEN 0 ELSE Head(q) + SeqSum(Tail(q))

\* C17: after n >= 1 timed runs, min_s is the smallest, max_s the largest
\* and sum_s the total of the n durations folded; so when every folded
\* duration is positive min_s is positive (it starts from the first run and
\* not from 0); the report prints these values.
C17_StatsOfFoldedDurations ==
    /\ Len(durs) = runs
    /\ (runs > 0 =>
          /\ min_s = SeqMin(durs)
          /\ max_s = SeqMax(durs)
          /\ sum_s = SeqSum(durs))
    /\ (runs > 0 /\ (\A k \in 1..Len(durs) : durs[k] > 0) => min_s > 0)
    /\ (Reported /\ runs > 0 =>
          /\ report.min = SeqMin(durs)
          /\ report.max = SeqMax(durs)
          /\ report.avg = <<SeqSum(durs), Len(durs)>>)

C17_Witness ==
    /\ Reported
    /\ durs = <<1, 2>>
    /\ report.min = 1
    /\ report.max = 2
    /\ report.avg = <<3, 2>>

\* The clock values the next read can give.
Readable == {t \in clock..(clock + MaxStep) : t <= MaxClock}

\* Where the bounds of this model, not the program, end a behaviour: at the
\* budget check after MaxRuns runs, with no readable clock value at which
\* the budget is spent.
BoundReached ==
    /\ pc = "check"
    /\ runs = MaxRuns
    /\ \A t \in Readable : t - total_start < duration

\* C18: with a working clock, children that terminate and a wait that is
\* interrupted MaxEintr times at most, the harness leaves the warmup phase
\* after warmups runs and, from the start of the window, leaves the timed
\* phase and ends with the report printed, whatever the runs returned and
\* however long they were measured to be.
C18_Terminates ==
    /\ (pc = "warmup" /\ clock_ok) ~> (pc = "window" /\ calls = warmups)
    /\ (pc = "window" /\ clock_ok) ~> (Reported \/ BoundReached)

\* The one timed run ended at its failed fork, and the report is reached.
C18_Witness ==
    /\ Reported
    /\ cmd = "true"
    /\ report.runs = 1
    /\ report.fails = 1
    /\ durs = <<0>>
    /\ ~unmeasured
    /\ report.total >= duration

====
